---------------------------- MODULE Spec2Model ----------------------------
(***************************************************************************)
(* A model of gpx_converter.py: main() and the two functions it drives,   *)
(* convert_trkpt_to_wpt() and write_chunk().  One run of the program is   *)
(* one behaviour: the input is chosen in Init, and each action is one     *)
(* statement group or one loop iteration of the source.                   *)
(*                                                                         *)
(* Texts are TLA+ strings; a character is a string of length 1.  A parsed *)
(* timestamp (a naive datetime) is <<ordinal day, second of day,          *)
(* microsecond>>, compared field by field as datetime compares.           *)
(***************************************************************************)
EXTENDS Integers, Sequences, FiniteSets, TLC

VARIABLES
    input,          \* what the path given on the command line holds
    pc,             \* position of the run in the source
    tree,           \* the parsed document: trk -> trkseg -> trkpt
    i,              \* index of the next element of the running for loop
    track_points,   \* list of (timestamp, trkpt)
    chunk_start,
    chunk_number,
    current_chunk,  \* list of trkpt
    total_waypoints,
    files,          \* the output directory: file name -> waypoints written
    calls,          \* the calls of write_chunk made so far
    stdout,         \* the lines printed so far
    exc,            \* the exception in flight or caught, or None
    exit_code       \* the exit status of the process, or None while it runs

vars == <<input, pc, tree, i, track_points, chunk_start, chunk_number,
          current_chunk, total_waypoints, files, calls, stdout, exc, exit_code>>

\* Python's None: an absent element, an element without text, no value yet.
None == "<None>"

-----------------------------------------------------------------------------
(* Text helpers *)

Char(s, k) == SubSeq(s, k, k)

Digits == "0123456789"

IsDigit(c) == \E d \in 1..10 : Char(Digits, d) = c

DigitVal(c) == (CHOOSE d \in 1..10 : Char(Digits, d) = c) - 1

AllDigits(s) == \A k \in 1..Len(s) : IsDigit(Char(s, k))

RECURSIVE ToInt(_)
\* int() of a text made of digits
ToInt(s) == IF s = "" THEN 0
            ELSE 10 * ToInt(SubSeq(s, 1, Len(s) - 1)) + DigitVal(Char(s, Len(s)))

RECURSIVE Decimal(_)
\* str() of a natural number
Decimal(n) == IF n < 10 THEN Char(Digits, n + 1)
              ELSE Decimal(n \div 10) \o Char(Digits, (n % 10) + 1)

\* the format specs :02d and :03d : the decimal text, zero-filled to the width
ZeroPad(n, width) ==
    LET RECURSIVE Fill(_)
        Fill(s) == IF Len(s) >= width THEN s ELSE Fill("0" \o s)
    IN  Fill(Decimal(n))

\* repr() of a text without quotes or backslashes
Repr(s) == "'" \o s \o "'"

-----------------------------------------------------------------------------
(* datetime: the library calls the source makes at lines 36, 47 and 55.   *)
(* FromIsoFormat follows CPython 3.11's datetime.fromisoformat for texts  *)
(* without a UTC offset and without ISO week dates; a text that has one   *)
(* is outside the inputs of this model.                                   *)

\* The character at position p of a C string; "" stands for its terminator.
CharAt(s, p) == IF p >= 1 /\ p <= Len(s) THEN Char(s, p) ELSE ""

\* parse_digits: the value of the n digits at p, or -1 when one is no digit
ParseDigits(s, p, n) ==
    IF \A k \in p..(p + n - 1) : IsDigit(CharAt(s, k))
    THEN ToInt(SubSeq(s, p, p + n - 1))
    ELSE -1

\* parse_hh_mm_ss_ff on the time part t: [HH[:?MM[:?SS]]] and a fraction
ParseHhMmSsFf(t) ==
    LET end == Len(t) + 1
        Bad == [rv |-> 1, vals |-> <<0, 0, 0>>, us |-> 0]
        Frac(p, vals) ==
            LET remains == end - p
                to_parse == IF remains >= 6 THEN 6 ELSE remains
                raw == ParseDigits(t, p, to_parse)
                scale == CASE to_parse = 1 -> 100000 [] to_parse = 2 -> 10000
                           [] to_parse = 3 -> 1000   [] to_parse = 4 -> 100
                           [] to_parse = 5 -> 10     [] OTHER -> 1
            IN  IF raw < 0 \/ ~AllDigits(SubSeq(t, p + to_parse, Len(t)))
                THEN Bad
                ELSE [rv |-> 0, vals |-> vals, us |-> raw * scale]
        RECURSIVE Loop(_, _, _, _)
        Loop(k, p, has_separator, vals) ==
            IF k = 3 THEN Frac(p, vals)
            ELSE LET d == ParseDigits(t, p, 2)
                     c == CharAt(t, p + 2)
                     q == p + 3
                     sep == IF k = 0 THEN c = ":" ELSE has_separator
                     v == [vals EXCEPT ![k + 1] = d]
                 IN  IF d < 0 THEN Bad
                     ELSE IF q >= end
                          THEN IF c = "" THEN [rv |-> 0, vals |-> v, us |-> 0]
                               ELSE Bad
                     ELSE IF sep /\ c = ":" THEN Loop(k + 1, q, sep, v)
                     ELSE IF c \in {".", ","} THEN Frac(q, v)
                     ELSE IF ~sep THEN Loop(k + 1, q - 1, sep, v)
                     ELSE Bad
    IN  Loop(0, 1, TRUE, <<0, 0, 0>>)

\* parse_isoformat_date on the first `sep` characters: YYYY-MM-DD or YYYYMMDD
ParseIsoDate(s, sep) ==
    LET y == ParseDigits(s, 1, 4)
        dash == CharAt(s, 5) = "-"
        mp == IF dash THEN 6 ELSE 5
        m == ParseDigits(s, mp, 2)
        dp == IF dash THEN mp + 3 ELSE mp + 2
        d == ParseDigits(s, dp, 2)
    IN  IF y < 0 \/ m < 0 \/ d < 0 \/ (dash /\ CharAt(s, mp + 2) # "-")
           \/ dp + 1 > sep
        THEN [rv |-> 1, y |-> 0, m |-> 0, d |-> 0]
        ELSE [rv |-> 0, y |-> y, m |-> m, d |-> d]

IsLeap(y) == y % 4 = 0 /\ (y % 100 # 0 \/ y % 400 = 0)

DaysInMonth(y, m) ==
    IF m = 2 THEN (IF IsLeap(y) THEN 29 ELSE 28)
    ELSE IF m \in {4, 6, 9, 11} THEN 30 ELSE 31

RECURSIVE DaysBeforeMonth(_, _)
DaysBeforeMonth(y, m) ==
    IF m = 1 THEN 0 ELSE DaysBeforeMonth(y, m - 1) + DaysInMonth(y, m - 1)

\* date.toordinal(): 1 for 0001-01-01
Ordinal(y, m, d) ==
    LET p == y - 1
    IN  p * 365 + (p \div 4) - (p \div 100) + (p \div 400)
        + DaysBeforeMonth(y, m) + d

InvalidIso(s) == [err |-> "Invalid isoformat string: " \o Repr(s)]

\* datetime.fromisoformat(s): [err |-> None, dt |-> the datetime], or
\* [err |-> the message of the ValueError raised]
FromIsoFormat(s) ==
    LET len == Len(s)
        sep == IF CharAt(s, 5) = "-" THEN 10 ELSE 8
        week == CharAt(s, 5) = "W" \/ CharAt(s, 6) = "W"
        date == ParseIsoDate(s, sep)
        t == SubSeq(s, sep + 2, len)
        offset == \E k \in 1..Len(t) : Char(t, k) \in {"Z", "+", "-"}
        time == IF len > sep THEN ParseHhMmSsFf(t)
                ELSE [rv |-> 0, vals |-> <<0, 0, 0>>, us |-> 0]
    IN  IF len < 8 \/ week \/ date.rv # 0 \/ (len > sep /\ offset)
           \/ time.rv # 0
        THEN InvalidIso(s)
        ELSE IF date.y < 1 THEN [err |-> "year 0 is out of range"]
        ELSE IF date.m < 1 \/ date.m > 12 THEN [err |-> "month must be in 1..12"]
        ELSE IF date.d < 1 \/ date.d > DaysInMonth(date.y, date.m)
             THEN [err |-> "day is out of range for month"]
        ELSE IF time.vals[1] > 23 THEN [err |-> "hour must be in 0..23"]
        ELSE IF time.vals[2] > 59 THEN [err |-> "minute must be in 0..59"]
        ELSE IF time.vals[3] > 59 THEN [err |-> "second must be in 0..59"]
        ELSE [err |-> None,
              dt |-> <<Ordinal(date.y, date.m, date.d),
                       time.vals[1] * 3600 + time.vals[2] * 60 + time.vals[3],
                       time.us>>]

\* timedelta(seconds=120), the chunk_duration of the source
ChunkSeconds == 120

\* datetime.max.toordinal()
MaxOrdinal == Ordinal(9999, 12, 31)

\* datetime + timedelta(seconds=n), for 0 <= n < 86400:
\* [err |-> None, dt |-> the sum], or [err |-> the message of the
\* OverflowError raised] when the sum lies after datetime.max
AddSeconds(dt, n) ==
    LET s == dt[2] + n
        sum == IF s >= 86400 THEN <<dt[1] + 1, s - 86400, dt[3]>>
               ELSE <<dt[1], s, dt[3]>>
    IN  IF sum[1] > MaxOrdinal THEN [err |-> "date value out of range"]
        ELSE [err |-> None, dt |-> sum]

\* a < b on naive datetimes
DtLess(a, b) ==
    \/ a[1] < b[1]
    \/ a[1] = b[1] /\ a[2] < b[2]
    \/ a[1] = b[1] /\ a[2] = b[2] /\ a[3] < b[3]

\* a >= b on naive datetimes
DtGe(a, b) == ~DtLess(a, b)

-----------------------------------------------------------------------------
(* The input: a GPX document as ElementTree presents it.  An element that  *)
(* find() may return is [found, text]; text is None for an element with    *)
(* no text.  A trkpt is [lat, lon, ele, time]; the document is a sequence  *)
(* of trk, each a sequence of trkseg, each a sequence of trkpt.            *)

Elem(text) == [found |-> TRUE, text |-> text]

NoElem == [found |-> FALSE, text |-> None]

TrkPt(lat, lon, ele, time) == [lat |-> lat, lon |-> lon, ele |-> ele, time |-> time]

\* Track points the input documents are built from.  With T = 2024-02-29
\* 23:58:00 they lie at T, T+10s, T+119.999999s, T+120s and T+300s; one has
\* the usual GPX form, which does not parse once its Z is replaced, one has no
\* time element, one a time element without text, and one lies in the last
\* 120 seconds before datetime.max.
PointPool ==
    { TrkPt("47.60", "-122.33", Elem("123.4"), Elem("2024-02-29T23:58:00.00Z")),
      TrkPt("47.61", "-122.34", NoElem, Elem("2024-02-29T23:58:10.00Z")),
      TrkPt("47.62", "-122.35", Elem("125.0"), Elem("2024-02-29Z23:59:59.999999Z")),
      TrkPt("47.63", "-122.36", Elem(None), Elem("2024-03-01T00:00:00.0Z")),
      TrkPt("47.64", "-122.37", Elem("130.2"), Elem("2024-03-01T00:03")),
      TrkPt("47.65", "-122.38", Elem("131.0"), Elem("2024-02-29T23:58:00Z")),
      TrkPt("47.66", "-122.39", Elem("132.0"), NoElem),
      TrkPt("47.67", "-122.40", NoElem, Elem(None)),
      TrkPt("47.68", "-122.41", Elem("133.0"), Elem("9999-12-31T23:59:00.00Z")) }

\* The scenario of the specification: T, T+10s, T+130s, T+140s, T+300s,
\* given out of order.
ExamplePoints ==
    << TrkPt("1.0", "2.0", NoElem, Elem("2024-03-01T00:00:20.00Z")),
       TrkPt("1.1", "2.1", NoElem, Elem("2024-02-29T23:58:00.00Z")),
       TrkPt("1.2", "2.2", NoElem, Elem("2024-03-01T00:03:00.00Z")),
       TrkPt("1.3", "2.3", NoElem, Elem("2024-02-29T23:58:10.00Z")),
       TrkPt("1.4", "2.4", NoElem, Elem("2024-03-01T00:00:10.00Z")) >>

\* The most track points a generated document holds.
MaxPoints == 3

PointSeqs == UNION { [1..n -> PointPool] : n \in 0..MaxPoints }

\* The documents: every point sequence in one trkseg; split over two trkseg
\* of one trk; split over two trk; and the documents without any trkpt.
Docs ==
    { << >>, << << >> >> }
      \cup { << << s >> >> : s \in PointSeqs }
      \cup { << << SubSeq(s, 1, 1), SubSeq(s, 2, Len(s)) >> >> :
                s \in { q \in PointSeqs : Len(q) >= 2 } }
      \cup { << << SubSeq(s, 1, Len(s) - 1) >>, << SubSeq(s, Len(s), Len(s)) >> >> :
                s \in { q \in PointSeqs : Len(q) >= 2 } }
      \cup { << << ExamplePoints >> >> }

\* What the input path holds: nothing, a file that is not XML, or a document.
Inputs ==
    { [exists |-> FALSE, wellformed |-> FALSE, doc |-> << >>],
      [exists |-> TRUE, wellformed |-> FALSE, doc |-> << >>] }
      \cup { [exists |-> TRUE, wellformed |-> TRUE, doc |-> d] : d \in Docs }

InputName == "track.gpx"

\* Path(args.input).stem + "_waypoints": the stem of the default output path
OutputStem == "track_waypoints"

RECURSIVE Concat(_)
Concat(ss) == IF ss = << >> THEN << >> ELSE Head(ss) \o Concat(Tail(ss))

\* The trkpt elements in the order the three nested findall loops visit them.
\* A trkpt is referred to by its position in this sequence.
FindAllTrkPt(root) == Concat([a \in 1..Len(root) |-> Concat(root[a])])

-----------------------------------------------------------------------------
(* convert_trkpt_to_wpt: the pure parts *)

RECURSIVE ReplaceZ(_)
\* time_elem.text.replace("Z", "0")
ReplaceZ(text) ==
    IF text = "" THEN ""
    ELSE (IF Char(text, 1) = "Z" THEN "0" ELSE Char(text, 1))
         \o ReplaceZ(SubSeq(text, 2, Len(text)))

\* One element of track_points: (timestamp, trkpt)
Entry(timestamp, trkpt) == [timestamp |-> timestamp, trkpt |-> trkpt]

\* list.sort(key=lambda x: x[0]) is stable: an element goes behind every
\* element whose timestamp is not greater than its own.
InsertByTimestamp(sorted, e) ==
    LET later == { k \in 1..Len(sorted) : DtLess(e.timestamp, sorted[k].timestamp) }
        at == IF later = {} THEN Len(sorted) + 1
              ELSE CHOOSE k \in later : \A j \in later : k <= j
    IN  SubSeq(sorted, 1, at - 1) \o << e >> \o SubSeq(sorted, at, Len(sorted))

\* A variant that leaves track_points in document order.
Unsorted(tp) == tp

RECURSIVE SortByTimestamp(_)
SortByTimestamp(tp) ==
    IF tp = << >> THEN << >>
    ELSE InsertByTimestamp(SortByTimestamp(SubSeq(tp, 1, Len(tp) - 1)), tp[Len(tp)])

\* A variant that compares with > : a point at exactly chunk_start + 120s stays.
StartsNewChunkStrict(timestamp, start) ==
    DtLess(AddSeconds(start, ChunkSeconds).dt, timestamp)

\* timestamp >= chunk_start + chunk_duration
StartsNewChunk(timestamp, start) ==
    DtGe(timestamp, AddSeconds(start, ChunkSeconds).dt)

\* chunk_start + chunk_duration raises
BoundaryOverflows(start) == AddSeconds(start, ChunkSeconds).err # None

\* A variant that never advances the chunk number.
SameChunkNumber(n) == n

\* chunk_number += 1
NextChunkNumber(n) == n + 1

-----------------------------------------------------------------------------
(* write_chunk *)

\* base_path.parent / f"{base_path.stem}_chunk_{chunk_number:02d}.gpx"
ChunkOutput(stem, n) == stem \o "_chunk_" \o ZeroPad(n, 2) \o ".gpx"

\* f'WPT{waypoint_count:03d}'
WaypointName(waypoint_count) == "WPT" \o ZeroPad(waypoint_count, 3)

\* A variant that writes the text that was handed to the parser.
WaypointParsedTime(trkpt, waypoint_count) ==
    [lat |-> trkpt.lat,
     lon |-> trkpt.lon,
     ele |-> IF trkpt.ele.found THEN Elem(trkpt.ele.text) ELSE NoElem,
     time |-> IF trkpt.time.found THEN Elem(ReplaceZ(trkpt.time.text)) ELSE NoElem,
     name |-> WaypointName(waypoint_count)]

\* The wpt element built from one trkpt, the waypoint_count-th of its chunk
Waypoint(trkpt, waypoint_count) ==
    [lat |-> trkpt.lat,
     lon |-> trkpt.lon,
     ele |-> IF trkpt.ele.found THEN Elem(trkpt.ele.text) ELSE NoElem,
     time |-> IF trkpt.time.found THEN Elem(trkpt.time.text) ELSE NoElem,
     name |-> WaypointName(waypoint_count)]

\* A variant that numbers a waypoint by its position in the document.
NewRootGlobalCounter(root, refs) ==
    [version |-> "1.1",
     creator |-> "GPX Converter",
     xmlns |-> "http://www.topografix.com/GPX/1/1",
     wpt |-> [k \in 1..Len(refs) |->
                Waypoint(FindAllTrkPt(root)[refs[k]], refs[k] - 1)]]

\* The document write_chunk builds from the trkpt references `refs`
NewRoot(root, refs) ==
    [version |-> "1.1",
     creator |-> "GPX Converter",
     xmlns |-> "http://www.topografix.com/GPX/1/1",
     wpt |-> [k \in 1..Len(refs) |-> Waypoint(FindAllTrkPt(root)[refs[k]], k - 1)]]

\* print(f"Chunk {chunk_number}: {waypoint_count} waypoints -> {chunk_output}")
ChunkLine(n, count, path) ==
    "Chunk " \o Decimal(n) \o ": " \o Decimal(count) \o " waypoints -> " \o path

\* One call of write_chunk, as recorded in calls
Call(refs, n, ok) == [track_points |-> refs, chunk_number |-> n, ok |-> ok]

\* output_tree.write creates or replaces the file of that name
WriteFile(dir, path, content) == (path :> content) @@ dir

-----------------------------------------------------------------------------
(* Exceptions *)

NoExc == [type |-> None, msg |-> None]

Exc(type, msg) == [type |-> type, msg |-> msg]

ParseError == Exc("ParseError", "no element found: line 1, column 0")

AttributeError == Exc("AttributeError", "'NoneType' object has no attribute 'replace'")

ValueError(msg) == Exc("ValueError", msg)

OverflowError(msg) == Exc("OverflowError", msg)

PermissionError(path) ==
    Exc("PermissionError", "[Errno 13] Permission denied: " \o Repr(path))

-----------------------------------------------------------------------------
(* The run *)

Init ==
    /\ input \in Inputs
    /\ pc = "main"
    /\ tree = << >>
    /\ i = 0
    /\ track_points = << >>
    /\ chunk_start = << >>
    /\ chunk_number = 0
    /\ current_chunk = << >>
    /\ total_waypoints = 0
    /\ files = << >>
    /\ calls = << >>
    /\ stdout = << >>
    /\ exc = NoExc
    /\ exit_code = -1

\* main, lines 130-141: the existence check, then the call of the conversion
MainStart ==
    /\ pc = "main"
    /\ IF ~input.exists
       THEN /\ stdout' = Append(stdout, "Error: Input file " \o Repr(InputName) \o " not found")
            /\ exit_code' = 1
            /\ pc' = "exit"
       ELSE /\ pc' = "parse"
            /\ UNCHANGED <<stdout, exit_code>>
    /\ UNCHANGED <<input, tree, i, track_points, chunk_start, chunk_number,
                   current_chunk, total_waypoints, files, calls, exc>>

\* lines 17-24: ET.parse raises on a file that is not XML
ParseXml ==
    /\ pc = "parse"
    /\ IF ~input.wellformed
       THEN /\ exc' = ParseError
            /\ pc' = "raised"
            /\ UNCHANGED <<tree, i>>
       ELSE /\ tree' = input.doc
            /\ i' = 1
            /\ pc' = "extract"
            /\ UNCHANGED exc
    /\ UNCHANGED <<input, track_points, chunk_start, chunk_number, current_chunk,
                   total_waypoints, files, calls, stdout, exit_code>>

\* A variant that skips a trkpt whose time does not parse and goes on.
ExtractSkipsBadTime ==
    /\ pc = "extract"
    /\ i <= Len(FindAllTrkPt(tree))
    /\ LET time_elem == FindAllTrkPt(tree)[i].time
           time_str == ReplaceZ(time_elem.text)
           parsed == FromIsoFormat(time_str)
       IN  IF ~time_elem.found
           THEN /\ i' = i + 1
                /\ UNCHANGED <<pc, track_points, stdout, exc>>
           ELSE IF time_elem.text = None
           THEN /\ exc' = AttributeError
                /\ pc' = "raised"
                /\ UNCHANGED <<i, track_points, stdout>>
           ELSE IF parsed.err # None
           THEN /\ stdout' = Append(stdout, Repr(time_str))
                /\ i' = i + 1
                /\ UNCHANGED <<pc, track_points, exc>>
           ELSE /\ stdout' = Append(stdout, Repr(time_str))
                /\ track_points' = Append(track_points, Entry(parsed.dt, i))
                /\ i' = i + 1
                /\ UNCHANGED <<pc, exc>>
    /\ UNCHANGED <<input, tree, chunk_start, chunk_number, current_chunk,
                   total_waypoints, files, calls, exit_code>>

\* lines 27-37: one iteration of the innermost loop, on the i-th trkpt
Extract ==
    /\ pc = "extract"
    /\ i <= Len(FindAllTrkPt(tree))
    /\ LET time_elem == FindAllTrkPt(tree)[i].time
           time_str == ReplaceZ(time_elem.text)
           parsed == FromIsoFormat(time_str)
       IN  IF ~time_elem.found
           THEN /\ i' = i + 1
                /\ UNCHANGED <<pc, track_points, stdout, exc>>
           ELSE IF time_elem.text = None
           THEN /\ exc' = AttributeError
                /\ pc' = "raised"
                /\ UNCHANGED <<i, track_points, stdout>>
           ELSE IF parsed.err # None
           THEN /\ stdout' = Append(stdout, Repr(time_str))
                /\ exc' = ValueError(parsed.err)
                /\ pc' = "raised"
                /\ UNCHANGED <<i, track_points>>
           ELSE /\ stdout' = Append(stdout, Repr(time_str))
                /\ track_points' = Append(track_points, Entry(parsed.dt, i))
                /\ i' = i + 1
                /\ UNCHANGED <<pc, exc>>
    /\ UNCHANGED <<input, tree, chunk_start, chunk_number, current_chunk,
                   total_waypoints, files, calls, exit_code>>

\* A variant without the early return: track_points[0] then raises IndexError.
NoTrackPointsFallsThrough ==
    /\ pc = "extract"
    /\ i > Len(FindAllTrkPt(tree))
    /\ track_points = << >>
    /\ stdout' = Append(stdout, "No track points with valid timestamps found")
    /\ exc' = Exc("IndexError", "list index out of range")
    /\ pc' = "raised"
    /\ UNCHANGED <<input, tree, i, track_points, chunk_start, chunk_number,
                   current_chunk, total_waypoints, files, calls, exit_code>>

\* lines 39-41: nothing was collected
NoTrackPoints ==
    /\ pc = "extract"
    /\ i > Len(FindAllTrkPt(tree))
    /\ track_points = << >>
    /\ stdout' = Append(stdout, "No track points with valid timestamps found")
    /\ pc' = "returned"
    /\ UNCHANGED <<input, tree, i, track_points, chunk_start, chunk_number,
                   current_chunk, total_waypoints, files, calls, exc, exit_code>>

\* lines 43-51: the sort and the initial values of the split
SortAndStart ==
    /\ pc = "extract"
    /\ i > Len(FindAllTrkPt(tree))
    /\ track_points # << >>
    /\ track_points' = SortByTimestamp(track_points)
    /\ chunk_start' = track_points'[1].timestamp
    /\ chunk_number' = 1
    /\ current_chunk' = << >>
    /\ total_waypoints' = 0
    /\ i' = 1
    /\ pc' = "split"
    /\ UNCHANGED <<input, tree, files, calls, stdout, exc, exit_code>>

\* lines 53-66: one iteration of the split loop, write_chunk succeeding
Split ==
    /\ pc = "split"
    /\ i <= Len(track_points)
    /\ ~BoundaryOverflows(chunk_start)
    /\ LET timestamp == track_points[i].timestamp
           trkpt == track_points[i].trkpt
           new == StartsNewChunk(timestamp, chunk_start)
           flush == new /\ current_chunk # << >>
           path == ChunkOutput(OutputStem, chunk_number)
       IN  /\ IF flush
              THEN /\ files' = WriteFile(files, path, NewRoot(tree, current_chunk))
                   /\ calls' = Append(calls, Call(current_chunk, chunk_number, TRUE))
                   /\ stdout' = Append(stdout, ChunkLine(chunk_number, Len(current_chunk), path))
                   /\ total_waypoints' = total_waypoints + Len(current_chunk)
                   /\ chunk_number' = NextChunkNumber(chunk_number)
              ELSE UNCHANGED <<files, calls, stdout, total_waypoints, chunk_number>>
           /\ chunk_start' = IF new THEN timestamp ELSE chunk_start
           /\ current_chunk' = Append(IF new THEN << >> ELSE current_chunk, trkpt)
    /\ i' = i + 1
    /\ UNCHANGED <<input, pc, tree, track_points, exc, exit_code>>

\* lines 53-55: chunk_start + chunk_duration lies after datetime.max
SplitOverflows ==
    /\ pc = "split"
    /\ i <= Len(track_points)
    /\ BoundaryOverflows(chunk_start)
    /\ exc' = OverflowError(AddSeconds(chunk_start, ChunkSeconds).err)
    /\ pc' = "raised"
    /\ UNCHANGED <<input, tree, i, track_points, chunk_start, chunk_number,
                   current_chunk, total_waypoints, files, calls, stdout, exit_code>>

\* lines 55-58 and 115-118: the file of the chunk cannot be written
SplitWriteFails ==
    /\ pc = "split"
    /\ i <= Len(track_points)
    /\ ~BoundaryOverflows(chunk_start)
    /\ StartsNewChunk(track_points[i].timestamp, chunk_start)
    /\ current_chunk # << >>
    /\ calls' = Append(calls, Call(current_chunk, chunk_number, FALSE))
    /\ exc' = PermissionError(ChunkOutput(OutputStem, chunk_number))
    /\ pc' = "raised"
    /\ UNCHANGED <<input, tree, i, track_points, chunk_start, chunk_number,
                   current_chunk, total_waypoints, files, stdout, exit_code>>

\* print(f"Converted {total_waypoints} track points to waypoints across ...")
ConvertedLine(total, n) ==
    "Converted " \o Decimal(total) \o " track points to waypoints across "
        \o Decimal(n) \o " files"

\* A variant that forgets the chunk still in the buffer when the loop ends.
FinalWithoutFlush ==
    /\ pc = "split"
    /\ i > Len(track_points)
    /\ stdout' = Append(stdout, ConvertedLine(total_waypoints, chunk_number))
    /\ pc' = "returned"
    /\ UNCHANGED <<input, tree, i, track_points, chunk_start, chunk_number,
                   current_chunk, total_waypoints, files, calls, exc, exit_code>>

\* lines 68-73: the final chunk and the report, write_chunk succeeding
Final ==
    /\ pc = "split"
    /\ i > Len(track_points)
    /\ LET flush == current_chunk # << >>
           path == ChunkOutput(OutputStem, chunk_number)
           total == IF flush THEN total_waypoints + Len(current_chunk)
                    ELSE total_waypoints
       IN  /\ files' = IF flush THEN WriteFile(files, path, NewRoot(tree, current_chunk))
                       ELSE files
           /\ calls' = IF flush THEN Append(calls, Call(current_chunk, chunk_number, TRUE))
                       ELSE calls
           /\ total_waypoints' = total
           /\ stdout' = (IF flush
                         THEN Append(stdout, ChunkLine(chunk_number, Len(current_chunk), path))
                         ELSE stdout)
                        \o << ConvertedLine(total, chunk_number) >>
    /\ pc' = "returned"
    /\ UNCHANGED <<input, tree, i, track_points, chunk_start, chunk_number,
                   current_chunk, exc, exit_code>>

\* lines 69-70 and 115-118: the file of the final chunk cannot be written
FinalWriteFails ==
    /\ pc = "split"
    /\ i > Len(track_points)
    /\ current_chunk # << >>
    /\ calls' = Append(calls, Call(current_chunk, chunk_number, FALSE))
    /\ exc' = PermissionError(ChunkOutput(OutputStem, chunk_number))
    /\ pc' = "raised"
    /\ UNCHANGED <<input, tree, i, track_points, chunk_start, chunk_number,
                   current_chunk, total_waypoints, files, stdout, exit_code>>

\* A variant that prints the message and forgets sys.exit(1).
MainExceptNoExit ==
    /\ pc = "raised"
    /\ stdout' = Append(stdout, "Error converting file: " \o exc.msg)
    /\ exit_code' = 0
    /\ pc' = "exit"
    /\ UNCHANGED <<input, tree, i, track_points, chunk_start, chunk_number,
                   current_chunk, total_waypoints, files, calls, exc>>

\* main, lines 142-144: the handler of any exception of the conversion
MainExcept ==
    /\ pc = "raised"
    /\ stdout' = Append(stdout, "Error converting file: " \o exc.msg)
    /\ exit_code' = 1
    /\ pc' = "exit"
    /\ UNCHANGED <<input, tree, i, track_points, chunk_start, chunk_number,
                   current_chunk, total_waypoints, files, calls, exc>>

\* main returns after the conversion returned: the interpreter exits with 0
MainReturn ==
    /\ pc = "returned"
    /\ exit_code' = 0
    /\ pc' = "exit"
    /\ UNCHANGED <<input, tree, i, track_points, chunk_start, chunk_number,
                   current_chunk, total_waypoints, files, calls, stdout, exc>>

Next ==
    \/ MainStart
    \/ ParseXml
    \/ Extract
    \/ NoTrackPoints
    \/ SortAndStart
    \/ Split
    \/ SplitOverflows
    \/ SplitWriteFails
    \/ Final
    \/ FinalWriteFails
    \/ MainExcept
    \/ MainReturn

Spec == Init /\ [][Next]_vars

-----------------------------------------------------------------------------
(* Vocabulary of the properties.  The properties read the input document,  *)
(* the files written and the lines printed; timestamps are recovered from  *)
(* the time texts.                                                          *)

\* The places <<trk, trkseg, trkpt>> of a document
TreeSlots(root) ==
    UNION { UNION { { <<a, b, c>> : c \in 1..Len(root[a][b]) } :
                    b \in 1..Len(root[a]) } :
            a \in 1..Len(root) }

PointAt(root, sl) == root[sl[1]][sl[2]][sl[3]]

TimedSlots(root) == { sl \in TreeSlots(root) : PointAt(root, sl).time.found }

\* The places <<file, position>> of the waypoints on disk
WrittenSlots == UNION { { <<f, j>> : j \in 1..Len(files[f].wpt) } : f \in DOMAIN files }

WptAt(sl) == files[sl[1]].wpt[sl[2]]

SameFields(w, p) ==
    /\ w.lat = p.lat
    /\ w.lon = p.lon
    /\ w.ele = p.ele
    /\ w.time = p.time

\* The instant n seconds after dt, 0 <= n < 86400, as plain arithmetic
Shift(dt, n) ==
    LET s == dt[2] + n
    IN  IF s >= 86400 THEN <<dt[1] + 1, s - 86400, dt[3]>>
        ELSE <<dt[1], s, dt[3]>>

\* The timestamp a time text stands for
TimeOf(text) == FromIsoFormat(ReplaceZ(text)).dt

ChunkFile(n) == ChunkOutput(OutputStem, n)

\* f and g are the files of two consecutive chunk numbers
Consecutive(f, g) ==
    \E n \in 1..Cardinality(TreeSlots(input.doc)) :
        f = ChunkFile(n) /\ g = ChunkFile(n + 1)

\* The conversion ran to its end without raising
Completed == pc \in {"returned", "exit"} /\ input.exists /\ exc = NoExc

\* The document holds a time text that does not parse after the substitution
BadTimeInDoc ==
    \E sl \in TimedSlots(input.doc) :
        LET text == PointAt(input.doc, sl).time.text
        IN  text # None /\ FromIsoFormat(ReplaceZ(text)).err # None

\* The document holds a time element without text
NoTextInDoc ==
    \E sl \in TimedSlots(input.doc) : PointAt(input.doc, sl).time.text = None

-----------------------------------------------------------------------------
\* C1: when the conversion completes, the chunk files hold as many waypoints
\* as the input has track points with a time element; each such point is in
\* the files as often as it is in the input, and a point without a time
\* element is in no file.
RoundTripCount ==
    Completed =>
        /\ Cardinality(WrittenSlots) = Cardinality(TimedSlots(input.doc))
        /\ \A sl \in TreeSlots(input.doc) :
              LET p == PointAt(input.doc, sl)
              IN  Cardinality({ w \in WrittenSlots : SameFields(WptAt(w), p) })
                    = IF p.time.found
                      THEN Cardinality({ t \in TimedSlots(input.doc) :
                                            PointAt(input.doc, t) = p })
                      ELSE 0

\* A completed run that wrote two files from a document that also holds a
\* point without a time element.
RoundTripCountWitness ==
    /\ pc = "exit"
    /\ Completed
    /\ Cardinality(DOMAIN files) >= 2
    /\ TimedSlots(input.doc) # TreeSlots(input.doc)

\* C2: in every chunk file the timestamps do not decrease in file order, and
\* the first timestamp of chunk N+1 is not before any timestamp of chunk N.
Ordering ==
    /\ \A f \in DOMAIN files :
          \A j \in 1..Len(files[f].wpt), k \in 1..Len(files[f].wpt) :
              j < k => DtGe(TimeOf(files[f].wpt[k].time.text),
                            TimeOf(files[f].wpt[j].time.text))
    /\ \A f \in DOMAIN files, g \in DOMAIN files :
          Consecutive(f, g) =>
              \A j \in 1..Len(files[f].wpt) :
                  DtGe(TimeOf(files[g].wpt[1].time.text),
                       TimeOf(files[f].wpt[j].time.text))

\* A completed run with two files, one of them with two waypoints, on a
\* document whose points are not in timestamp order.
OrderingWitness ==
    /\ pc = "exit"
    /\ Completed
    /\ Cardinality(DOMAIN files) >= 2
    /\ \E f \in DOMAIN files : Len(files[f].wpt) >= 2
    /\ LET pts == FindAllTrkPt(input.doc)
       IN  \E a \in 1..Len(pts), b \in 1..Len(pts) :
               /\ a < b
               /\ pts[a].time.found
               /\ pts[b].time.found
               /\ DtLess(TimeOf(pts[b].time.text), TimeOf(pts[a].time.text))

\* The time texts of a chunk file, in file order
TimesIn(f) == [j \in 1..Len(files[f].wpt) |-> files[f].wpt[j].time.text]

\* C3: chunk_start is the timestamp of the first point of the chunk being
\* collected; every point of a written chunk lies in [start, start + 120s)
\* of that chunk's first point; the first point of the next chunk lies at or
\* after the previous chunk's start + 120s; and the points T, T+10s, T+130s,
\* T+140s, T+300s give exactly the chunks {T, T+10s}, {T+130s, T+140s},
\* {T+300s}.
ChunkBoundaryLaw ==
    /\ (pc = "split" /\ current_chunk # << >>) =>
          chunk_start = TimeOf(FindAllTrkPt(input.doc)[current_chunk[1]].time.text)
    /\ \A f \in DOMAIN files :
          LET start == TimeOf(files[f].wpt[1].time.text)
          IN  \A j \in 1..Len(files[f].wpt) :
                  /\ DtGe(TimeOf(files[f].wpt[j].time.text), start)
                  /\ DtLess(TimeOf(files[f].wpt[j].time.text),
                            Shift(start, ChunkSeconds))
    /\ \A f \in DOMAIN files, g \in DOMAIN files :
          Consecutive(f, g) =>
              DtGe(TimeOf(files[g].wpt[1].time.text),
                   Shift(TimeOf(files[f].wpt[1].time.text), ChunkSeconds))
    /\ (Completed /\ input.doc = << << ExamplePoints >> >>) =>
          /\ DOMAIN files = { ChunkFile(1), ChunkFile(2), ChunkFile(3) }
          /\ TimesIn(ChunkFile(1)) = << "2024-02-29T23:58:00.00Z", "2024-02-29T23:58:10.00Z" >>
          /\ TimesIn(ChunkFile(2)) = << "2024-03-01T00:00:10.00Z", "2024-03-01T00:00:20.00Z" >>
          /\ TimesIn(ChunkFile(3)) = << "2024-03-01T00:03:00.00Z" >>

\* The run on the five points of the scenario has ended with three files.
ChunkBoundaryLawWitness ==
    /\ pc = "exit"
    /\ input.doc = << << ExamplePoints >> >>
    /\ Cardinality(DOMAIN files) = 3

\* C4: in every chunk file the waypoint at position i, counted from 0, is
\* named WPT followed by i in three digits, whatever the file and wherever
\* the point stood in the run.
NamingPerChunk ==
    \A f \in DOMAIN files :
        \A j \in 1..Len(files[f].wpt) :
            LET name == files[f].wpt[j].name
            IN  /\ Len(name) = 6
                /\ SubSeq(name, 1, 3) = "WPT"
                /\ AllDigits(SubSeq(name, 4, 6))
                /\ ToInt(SubSeq(name, 4, 6)) = j - 1

\* A chunk file other than the first holds two waypoints.
NamingPerChunkWitness ==
    /\ pc = "exit"
    /\ \E f \in DOMAIN files : f # ChunkFile(1) /\ Len(files[f].wpt) >= 2

\* C5: the waypoints of every chunk written carry the lat, lon, elevation and
\* time text of their source track points unchanged, the time text being the
\* text of the input and not the text handed to the parser; the parsed
\* document is never changed.
FieldPreservation ==
    /\ \A c \in 1..Len(calls) :
          calls[c].ok =>
              /\ ChunkFile(calls[c].chunk_number) \in DOMAIN files
              /\ LET w == files[ChunkFile(calls[c].chunk_number)].wpt
                     refs == calls[c].track_points
                 IN  /\ Len(w) = Len(refs)
                     /\ \A j \in 1..Len(refs) :
                            SameFields(w[j], FindAllTrkPt(input.doc)[refs[j]])
    /\ \A w \in WrittenSlots :
          \E sl \in TimedSlots(input.doc) : SameFields(WptAt(w), PointAt(input.doc, sl))
    /\ (pc \notin {"main", "parse"} /\ input.wellformed) => tree = input.doc

\* A waypoint on disk has an elevation text and a time text ending in Z.
FieldPreservationWitness ==
    \E w \in WrittenSlots :
        LET text == WptAt(w).time.text
        IN  /\ WptAt(w).ele.found
            /\ WptAt(w).ele.text # None
            /\ Char(text, Len(text)) = "Z"

\* C6: on a document without any track point that has a time element, no
\* file is written, nothing is raised, and the run ends having printed the
\* message about missing timestamps, with exit code 0.
NoTimestampsNoOutput ==
    (input.exists /\ input.wellformed /\ TimedSlots(input.doc) = {}) =>
        /\ DOMAIN files = {}
        /\ calls = << >>
        /\ exc = NoExc
        /\ pc = "exit" =>
              /\ exit_code = 0
              /\ stdout = << "No track points with valid timestamps found" >>

\* The run has ended on a document whose track points all lack a time element.
NoTimestampsNoOutputWitness ==
    /\ pc = "exit"
    /\ input.exists
    /\ input.wellformed
    /\ TreeSlots(input.doc) # {}
    /\ TimedSlots(input.doc) = {}

\* C7, as amended: a run that aborts on a timestamp that does not parse has
\* called write_chunk not once and leaves no chunk file: a document with
\* such a timestamp never gets a file written.
NoFilesAfterTimestampAbort ==
    /\ exc.type = "ValueError" => (DOMAIN files = {} /\ calls = << >>)
    /\ (input.exists /\ input.wellformed /\ BadTimeInDoc) =>
          (DOMAIN files = {} /\ calls = << >>)

\* The run aborted on a timestamp after two points were collected that lie
\* more than a chunk apart.
NoFilesAfterTimestampAbortWitness ==
    /\ pc = "exit"
    /\ exc.type = "ValueError"
    /\ Len(track_points) >= 2
    /\ DtGe(track_points[2].timestamp,
            Shift(track_points[1].timestamp, ChunkSeconds))

\* C7, as claimed: when a later timestamp fails to parse, the chunk files of
\* the points collected before it are on disk.
PartialFilesAfterTimestampAbort ==
    (pc = "exit" /\ exc.type = "ValueError" /\ track_points # << >>) =>
        DOMAIN files # {}

\* A cause of failure that can be read off the input and the calls: the
\* input is missing or not XML, a time text is missing or does not parse, or
\* a file could not be written.
Fails ==
    \/ ~input.exists
    \/ ~input.wellformed
    \/ BadTimeInDoc
    \/ NoTextInDoc
    \/ \E c \in 1..Len(calls) : ~calls[c].ok

\* C8: the process exits with 1, after a message, when the input is missing
\* or the conversion raised any exception, and with 0 otherwise; a failed
\* write_chunk is not tried again.
ExitStatus ==
    /\ pc # "exit" => exit_code = -1
    /\ pc = "exit" =>
          /\ exit_code = IF ~input.exists \/ exc # NoExc THEN 1 ELSE 0
          /\ Fails => exit_code = 1
          /\ exit_code = 1 =>
                stdout[Len(stdout)] =
                    IF ~input.exists
                    THEN "Error: Input file 'track.gpx' not found"
                    ELSE "Error converting file: " \o exc.msg
          /\ (exit_code = 1 /\ ~Fails) => exc.type = "OverflowError"
    /\ \A c \in 1..Len(calls) : ~calls[c].ok => (c = Len(calls) /\ exc # NoExc)

\* The run has exited with 1 because the second chunk file could not be
\* written.
ExitStatusWitness ==
    /\ pc = "exit"
    /\ exit_code = 1
    /\ exc.type = "PermissionError"
    /\ DOMAIN files # {}

\* C9: write_chunk is called with the chunk numbers 1, 2, ... in order, each
\* time with a chunk that is not empty, so that the files on disk are those
\* of the calls, none written twice; the buffer is not empty when a boundary
\* is crossed; and the report of a completed run states the number of
\* waypoints and the number of files on disk.
ChunkNumbering ==
    /\ \A c \in 1..Len(calls) :
          /\ calls[c].chunk_number = c
          /\ calls[c].track_points # << >>
    /\ DOMAIN files = { ChunkFile(c) : c \in { d \in 1..Len(calls) : calls[d].ok } }
    /\ Cardinality(DOMAIN files) = Cardinality({ d \in 1..Len(calls) : calls[d].ok })
    /\ (pc = "split" /\ i > 1) => current_chunk # << >>
    /\ (pc = "split" /\ exc = NoExc) => chunk_number = Len(calls) + 1
    /\ (Completed /\ calls # << >>) =>
          stdout[Len(stdout)] =
              ConvertedLine(Cardinality(WrittenSlots), Cardinality(DOMAIN files))

\* A completed run that wrote three chunk files.
ChunkNumberingWitness ==
    /\ pc = "exit"
    /\ Completed
    /\ Cardinality(DOMAIN files) = 3
    /\ Len(calls) = 3

\* The text with only a trailing Z replaced by 0
ReplaceTrailingZ(text) ==
    IF text # "" /\ Char(text, Len(text)) = "Z"
    THEN SubSeq(text, 1, Len(text) - 1) \o "0"
    ELSE text

\* C10: the text handed to the parser, which the run prints just before, is
\* the time text with its trailing Z replaced by 0 and nothing else changed.
OnlyTrailingZReplaced ==
    (pc = "extract" /\ i > 1 /\ FindAllTrkPt(tree)[i - 1].time.found) =>
        stdout[Len(stdout)] = Repr(ReplaceTrailingZ(FindAllTrkPt(tree)[i - 1].time.text))

=============================================================================
